---- MODULE Spec2Model ----
(***************************************************************************)
(* Model of the hub dispatch layer (internal/hub/hub.go) together with the *)
(* date endpoint (internal/date/date.go) and the test MockEndpoint         *)
(* (internal/hub/hub_test.go).  Spec serves one request per behaviour: the *)
(* single-shot route "/"+N or the streaming route "/"+N+"/stream";         *)
(* FairSpec is one stream of the date endpoint under fair scheduling;      *)
(* SpecResolver is getMaxCount alone; SpecRegistry is RegisterEndpoint,    *)
(* Start and the routing of requests; SpecLock is RegisterEndpoint called  *)
(* by two goroutines, step by step under p.mu, beside Start; SpecServe is  *)
(* two requests served together.                                           *)
(*                                                                         *)
(* Byte strings are sequences of one-character strings.  A decoded JSON    *)
(* value is a record: [t |-> "num", n |-> 12], [t |-> "str", s |-> chars], *)
(* [t |-> "obj", m |-> function from key (chars) to value],                *)
(* [t |-> "arr", a |-> sequence of values].                                *)
(***************************************************************************)
EXTENDS Integers, Sequences, FiniteSets, TLC

\* ------------------------------------------------------------------ bounds
MaxRawLen == 3
MaxChunks == 3
MaxNow == 4

\* ------------------------------------------------------- program constants
DefaultMaxCount == 3600
StatusOK == 200
StatusInternalServerError == 500

\* Statuses an endpoint passes to WriteHeader or WriteError.
StatusCreated == 201
StatusNotFound == 404

\* --------------------------------------------------------------- characters
Digits == <<"0", "1", "2", "3", "4", "5", "6", "7", "8", "9">>

DigitChars == {Digits[i] : i \in 1..10}

DigitVal(c) == (CHOOSE i \in 1..10 : Digits[i] = c) - 1

IsSpace(c) == c = " "

IsSign(c) == c \in {"+", "-"}

\* The characters a raw max_count value is drawn from.
RawAlphabet == {" ", "-", "+", "0", "1", "2", "x"}

RECURSIVE SeqsUpTo(_, _)
SeqsUpTo(S, n) ==
    IF n = 0 THEN {<<>>}
    ELSE LET shorter == SeqsUpTo(S, n - 1)
         IN  shorter \cup {Append(s, c) : s \in {t \in shorter : Len(t) = n - 1}, c \in S}

Drop(s, k) == SubSeq(s, k + 1, Len(s))

\* ----------------------------------------------------- fmt.Sscanf(s, "%d", &v)
\* Leading blanks are skipped, one optional sign is accepted, then at least one
\* decimal digit is required; the digits are consumed greedily and whatever
\* follows them is left unread without an error.
RECURSIVE SkipSpace(_)
SkipSpace(s) ==
    IF s # <<>> /\ IsSpace(Head(s)) THEN SkipSpace(Tail(s)) ELSE s

RECURSIVE ScanDigits(_, _)
ScanDigits(s, acc) ==
    IF s # <<>> /\ Head(s) \in DigitChars
    THEN ScanDigits(Tail(s), acc * 10 + DigitVal(Head(s)))
    ELSE acc

\* Result: [err |-> BOOLEAN, v |-> the value scanned].  Nothing is stored in the
\* target when the scan fails: the caller's variable keeps the value it had.
Sscanf(s) ==
    LET t == SkipSpace(s)
        neg == t # <<>> /\ Head(t) = "-"
        u == IF t # <<>> /\ IsSign(Head(t)) THEN Tail(t) ELSE t
    IN  IF u = <<>> \/ Head(u) \notin DigitChars
        THEN [err |-> TRUE, v |-> 0]
        ELSE [err |-> FALSE,
              v |-> IF neg THEN 0 - ScanDigits(u, 0) ELSE ScanDigits(u, 0)]

\* ------------------------------------------------------- url.Values (query)
\* The request's query, reduced to the values given for the key max_count, in
\* order of appearance.  Get returns the first value, "" when there is none.
QueryGet(q) == IF q = <<>> THEN <<>> ELSE q[1]

\* Faulty variant: q.Add in place of q.Set leaves the client's value first.
QueryAdd(q, v) == Append(q, v)

\* q.Set("max_count", v); r.URL.RawQuery = q.Encode()
QuerySet(q, v) == <<v>>

\* ----------------------------------------------------------------- getMaxCount
\* The value an int variable holds after Sscanf(s, "%d", &v), v holding prior.
ScanInto(s, prior) == LET r == Sscanf(s) IN IF r.err THEN prior ELSE r.v

getMaxCount(q) ==
    LET maxCountStr == QueryGet(q)
    IN  IF maxCountStr = <<>> THEN DefaultMaxCount
        ELSE LET r == Sscanf(maxCountStr)
             IN  IF r.err \/ r.v <= 0 THEN DefaultMaxCount ELSE r.v

\* ------------------------------------------------------------ json.Unmarshal
\* Decoding into an interface{}: blanks and newlines around tokens, decimal
\* integers, strings without escapes, arrays, and objects whose members are
\* string : value pairs (a repeated key keeps its last value).  The chunks of
\* this model use no other JSON syntax (no literals, fractions or escapes).
IsBlank(c) == c \in {" ", "\n"}

RECURSIVE SkipBlank(_)
SkipBlank(s) ==
    IF s # <<>> /\ IsBlank(Head(s)) THEN SkipBlank(Tail(s)) ELSE s

JNum(n) == [t |-> "num", n |-> n]

JStr(s) == [t |-> "str", s |-> s]

JObj(m) == [t |-> "obj", m |-> m]

JArr(a) == [t |-> "arr", a |-> a]

EmptyObj == [k \in {} |-> JNum(0)]

Put(m, k, v) == [x \in (DOMAIN m) \cup {k} |-> IF x = k THEN v ELSE m[x]]

Bad == [ok |-> FALSE, v |-> JNum(0), rest |-> <<>>]

Good(v, rest) == [ok |-> TRUE, v |-> v, rest |-> rest]

RECURSIVE ScanString(_, _)
\* s follows the opening quote; acc holds the characters read so far.
ScanString(s, acc) ==
    IF s = <<>> \/ Head(s) = "\\" THEN Bad
    ELSE IF Head(s) = "\"" THEN Good(JStr(acc), Tail(s))
    ELSE ScanString(Tail(s), Append(acc, Head(s)))

RECURSIVE DigitRun(_)
DigitRun(s) ==
    IF s # <<>> /\ Head(s) \in DigitChars THEN 1 + DigitRun(Tail(s)) ELSE 0

\* s starts at the first digit (after an optional minus sign).
ScanNumber(s, neg) ==
    LET k == IF s # <<>> /\ Head(s) = "0" THEN 1 ELSE DigitRun(s)
        n == ScanDigits(SubSeq(s, 1, k), 0)
    IN  IF k = 0 THEN Bad
        ELSE Good(JNum(IF neg THEN 0 - n ELSE n), Drop(s, k))

RECURSIVE ParseValue(_)
RECURSIVE ParseMembers(_, _)
RECURSIVE ParseElements(_, _)
ParseValue(s0) ==
    LET s == SkipBlank(s0)
    IN  IF s = <<>> THEN Bad
        ELSE IF Head(s) = "\"" THEN ScanString(Tail(s), <<>>)
        ELSE IF Head(s) = "-" THEN ScanNumber(Tail(s), TRUE)
        ELSE IF Head(s) \in DigitChars THEN ScanNumber(s, FALSE)
        ELSE IF Head(s) = "{"
             THEN LET b == SkipBlank(Tail(s))
                  IN  IF b # <<>> /\ Head(b) = "}" THEN Good(JObj(EmptyObj), Tail(b))
                      ELSE ParseMembers(b, EmptyObj)
        ELSE IF Head(s) = "["
             THEN LET b == SkipBlank(Tail(s))
                  IN  IF b # <<>> /\ Head(b) = "]" THEN Good(JArr(<<>>), Tail(b))
                      ELSE ParseElements(b, <<>>)
        ELSE Bad

\* s starts (after blanks) at a member's key; m holds the members read so far.
ParseMembers(s0, m) ==
    LET s == SkipBlank(s0)
    IN  IF s = <<>> \/ Head(s) # "\"" THEN Bad
        ELSE LET k == ScanString(Tail(s), <<>>)
                 c == IF k.ok THEN SkipBlank(k.rest) ELSE <<>>
             IN  IF ~k.ok \/ c = <<>> \/ Head(c) # ":" THEN Bad
                 ELSE LET v == ParseValue(Tail(c))
                          e == IF v.ok THEN SkipBlank(v.rest) ELSE <<>>
                      IN  IF ~v.ok \/ e = <<>> THEN Bad
                          ELSE IF Head(e) = "}" THEN Good(JObj(Put(m, k.v.s, v.v)), Tail(e))
                          ELSE IF Head(e) = "," THEN ParseMembers(Tail(e), Put(m, k.v.s, v.v))
                          ELSE Bad

\* s starts at an element; a holds the elements read so far.
ParseElements(s, a) ==
    LET v == ParseValue(s)
        e == IF v.ok THEN SkipBlank(v.rest) ELSE <<>>
    IN  IF ~v.ok \/ e = <<>> THEN Bad
        ELSE IF Head(e) = "]" THEN Good(JArr(Append(a, v.v)), Tail(e))
        ELSE IF Head(e) = "," THEN ParseElements(Tail(e), Append(a, v.v))
        ELSE Bad

\* json.Unmarshal(b, &x): one value, then nothing but blanks.
Unmarshal(b) ==
    LET r == ParseValue(b)
    IN  IF r.ok /\ SkipBlank(r.rest) = <<>>
        THEN [err |-> FALSE, v |-> r.v]
        ELSE [err |-> TRUE, v |-> JNum(0)]

\* ------------------------------------------------------------- DataResponse
\* The decoded form of the envelope {"data": <value>}.
DataResponse(v) == [data |-> v]

\* Unmarshal the body; when that fails use the body as a string; wrap.
WrapBody(b) ==
    LET r == Unmarshal(b)
    IN  DataResponse(IF r.err THEN JStr(b) ELSE r.v)

\* ------------------------------------------------------------------- inputs
RECURSIVE Numeral(_)
\* The decimal text of a natural number: fmt.Sprintf("%d", k).
Numeral(k) ==
    IF k < 10 THEN <<Digits[k + 1]>>
    ELSE Append(Numeral(k \div 10), Digits[(k % 10) + 1])

\* ------------------------------------------------------------- ErrorResponse
\* A Go string as the JSON encoder writes it; the strings of this model hold
\* no character that is escaped.
Quote(s) == <<"\"">> \o s \o <<"\"">>

KeyErrors == <<"e", "r", "r", "o", "r", "s">>

KeyStatus == <<"s", "t", "a", "t", "u", "s">>

KeyTitle == <<"t", "i", "t", "l", "e">>

KeyDetail == <<"d", "e", "t", "a", "i", "l">>

\* The Error of WriteError: Status is the decimal text of the status.
ErrorOf(status, title, detail) ==
    [Status |-> Numeral(status), Title |-> title, Detail |-> detail]

\* json.NewEncoder(w).Encode(ErrorResponse{Errors: errs}): the fields in
\* declaration order, nothing omitted, a newline after the value.
RECURSIVE EncodeErrors(_)
EncodeErrors(errs) ==
    IF errs = <<>> THEN <<>>
    ELSE <<"{">> \o Quote(KeyStatus) \o <<":">> \o Quote(Head(errs).Status)
         \o <<",">> \o Quote(KeyTitle) \o <<":">> \o Quote(Head(errs).Title)
         \o <<",">> \o Quote(KeyDetail) \o <<":">> \o Quote(Head(errs).Detail)
         \o <<"}">>
         \o (IF Tail(errs) = <<>> THEN <<>> ELSE <<",">> \o EncodeErrors(Tail(errs)))

EncodeErrorResponse(errs) ==
    <<"{">> \o Quote(KeyErrors) \o <<":", "[">> \o EncodeErrors(errs)
            \o <<"]", "}", "\n">>

\* The bytes WriteError(w, status, title, detail) passes to w.Write.
ErrorBytes(status, title, detail) ==
    EncodeErrorResponse(<<ErrorOf(status, title, detail)>>)

\* Raw max_count values a client sends on a served route.
RawValues ==
    {<<>>, <<"0">>, <<"1">>, <<"2">>, <<"3">>, <<"1", "2">>, <<"-", "1">>,
     <<"x">>, <<"2", "x">>}

\* Queries: no max_count, one value, or two values (the first one counts).
Queries ==
    {<<>>} \cup {<<v>> : v \in RawValues}
           \cup {<<v, <<"1">>>> : v \in {<<"2">>, <<"x">>}}

\* Chunks the mock endpoint is constructed with.
Chunks ==
    {<<>>,
     <<"o", "k">>,
     <<"7">>,
     <<" ", "7", " ">>,
     <<"7", " ", "7">>,
     <<"\"", "o", "k", "\"">>,
     <<"{", "}">>,
     <<"{", "\"", "m", "\"", ":", "\"", "H", "i", "\"", "}">>,
     <<"{", "\"", "m", "\"", ":">>}

\* The date endpoint's chunk {"UTC":"<now>"}: json.Marshal(DateResponse{...}).
DateChunk(t) ==
    <<"{", "\"", "U", "T", "C", "\"", ":", "\"">> \o Numeral(t) \o <<"\"", "}">>

\* Statuses, titles and details an endpoint reports an error with, and the
\* statuses and bodies of an endpoint that sets a status before it writes.
ErrorStatuses == {StatusNotFound, StatusInternalServerError}

Titles == {<<"T">>, <<"N", "o">>}

Details == {<<>>, <<"d">>}

SetStatuses == {StatusOK, StatusCreated, StatusNotFound}

StatusBodies == {<<"o", "k">>, <<"{", "}">>}

\* The bodies the endpoints of this model write, and their envelopes, worked
\* out once.
KnownBodies ==
    Chunks \cup {DateChunk(t) : t \in 0..MaxNow}
           \cup {ErrorBytes(st, t, d) : st \in ErrorStatuses, t \in Titles, d \in Details}

WrapTable == [b \in KnownBodies |-> WrapBody(b)]

\* Faulty variant: the body is never parsed and always embedded as a string.
WrapAlwaysString(b) == DataResponse(JStr(b))

WrapResponse(b) == IF b \in KnownBodies THEN WrapTable[b] ELSE WrapBody(b)

\* -------------------------------------------------------------------- state
VARIABLES
    route,        \* "rest" | "stream" | "none": the route the request is sent to
    sent,         \* history: the max_count values the client sent
    query,        \* r.URL.Query()["max_count"]
    cap,          \* the endpoint bound to the name: "date" | "mock" | "status" | "fail"
    mockData,     \* MockEndpoint.data; the body of the "status" endpoint
    capStatus,    \* the status the endpoint sets, 0 when it sets none
    errTitle,     \* the title the "fail" endpoint passes to WriteError
    errDetail,    \* the detail it passes
    canFlush,     \* whether the live ResponseWriter is an http.Flusher
    hpc,          \* position of the route handler
    gpc,          \* position of the endpoint's HandleSSE (and of its goroutine)
    maxCountStr,  \* HandleSSE: the text read from the query
    maxCount,     \* HandleSSE: the parsed limit
    count,        \* date.HandleSSE: events sent so far
    cancelled,    \* r.Context() is done (the client disconnected)
    now,          \* the clock, in ticker periods
    tickC,        \* ticker.C (capacity 1): 0 when empty, else the tick's number
    pending,      \* the chunk Write is sending on responseChan
    cur,          \* the chunk the draining loop received
    closed,       \* responseChan is closed
    rrBody,       \* responseRecorder.body
    rrCode,       \* responseRecorder.code
    connStatus,   \* status line of the live response, 0 while not written
    conn,         \* what was written to the live connection, in order
    flushed,      \* how many entries of conn are flushed
    hdr,          \* w.Header() of the live response
    sentHdr,      \* the headers that went out with the status line
    rrHdr,        \* responseRecorder.header
    invocations,  \* history: calls of HandleSSE
    produced,     \* history: chunks passed to Write, in order
    producedTick, \* history: the tick on which each chunk was produced
    cancelAt,     \* history: the clock when the context was cancelled
    afterCancel,  \* history: chunks passed to Write after cancellation
    lateFrames,   \* history: events written after cancellation
    rawIn,        \* getMaxCount alone: the query it is given
    resolved,     \* getMaxCount alone: its result, 0 before the call
    endpoints,    \* Hub.endpoints: map from name to Endpoint
    calls,        \* history: the RegisterEndpoint calls made, in order
    phase,        \* Start: "registering" | "enumerating" | "serving" | "panicked"
    todo,         \* Start: names the range loop has not reached yet
    routes,       \* the ServeMux: pattern -> the closure registered for it
    bound,        \* history: Hub.endpoints when Start took the read lock
    served,       \* the closure the mux ran for the last request
    cx,           \* connections served together: each one's handler state
    chans,        \* the channels made so far, by number
    recs,         \* the recorders made so far, by number
    wrote,        \* history: the chunks each connection's HandleSSE call wrote
    mu,           \* p.mu: the goroutine holding the write lock (0: none), the readers
    regs          \* the goroutines calling RegisterEndpoint: position and arguments

vars ==
    <<route, sent, query, cap, mockData, capStatus, errTitle, errDetail, canFlush,
      hpc, gpc, maxCountStr, maxCount,
      count, cancelled, now, tickC, pending, cur, closed, rrBody, rrCode,
      connStatus, conn, flushed, hdr, sentHdr, rrHdr, invocations, produced,
      producedTick, cancelAt, afterCancel, lateFrames, rawIn, resolved,
      endpoints, calls, phase, todo, routes, bound, served,
      cx, chans, recs, wrote, mu, regs>>

capInputs == <<cap, mockData, capStatus, errTitle, errDetail>>

reqVars == <<route, sent, query, capInputs, canFlush>>

capVars == <<gpc, maxCountStr, maxCount, count, pending>>

envVars == <<cancelled, now, tickC, cancelAt>>

histVars == <<invocations, produced, producedTick, afterCancel, lateFrames>>

connVars == <<connStatus, conn, flushed>>

hdrVars == <<hdr, sentHdr, rrHdr>>

resolverVars == <<rawIn, resolved>>

registryVars == <<endpoints, calls, phase, todo, routes, bound, served>>

serveVars == <<cx, chans, recs, wrote>>

lockVars == <<mu, regs>>

\* ------------------------------------------------------------- http.Header
\* The header fields the hub and the endpoints of this model set; "" stands
\* for a field that is not set.
HeaderKeys ==
    {"Content-Type", "Cache-Control", "Connection", "Access-Control-Allow-Origin",
     "X-Endpoint"}

NoHeader == [k \in HeaderKeys |-> ""]

\* h.Set(k, v)
HeaderSet(h, k, v) == [h EXCEPT ![k] = v]

\* Faulty variant: the recorder's headers are not copied.
HeaderCopyNone(dst, src) == dst

\* for k, v := range src { dst[k] = v }
HeaderCopy(dst, src) == [k \in HeaderKeys |-> IF src[k] # "" THEN src[k] ELSE dst[k]]

\* The four header fields of the streaming route.
SSEHeaders(h) ==
    HeaderSet(HeaderSet(HeaderSet(HeaderSet(h,
        "Content-Type", "text/event-stream"),
        "Cache-Control", "no-cache"),
        "Connection", "keep-alive"),
        "Access-Control-Allow-Origin", "*")

\* make(map[string]Endpoint); http.NewServeMux()
EmptyMap == [x \in {} |-> ""]

\* No request has been dispatched.
NoClosure == [path |-> <<>>, endpointName |-> <<>>, endpointHandler |-> "", kind |-> "none"]

\* The Hub as New returns it, Start not called.
RegistryIdle ==
    /\ endpoints = EmptyMap /\ calls = <<>> /\ phase = "registering"
    /\ todo = {} /\ routes = EmptyMap /\ bound = EmptyMap /\ served = NoClosure

\* p.mu is free and no goroutine is inside RegisterEndpoint.
Unlocked == [writer |-> 0, readers |-> 0]

LockIdle == mu = Unlocked /\ regs = EmptyMap

\* No connections are served together.
ServeIdle == cx = EmptyMap /\ chans = <<>> /\ recs = <<>> /\ wrote = EmptyMap

Idle ==
    /\ hpc = "idle" /\ gpc = "none"
    /\ maxCountStr = <<>> /\ maxCount = 0 /\ count = 0
    /\ cancelled = FALSE /\ now = 0 /\ tickC = 0
    /\ pending = <<>> /\ cur = <<>> /\ closed = FALSE
    /\ rrBody = <<>> /\ rrCode = StatusOK
    /\ connStatus = 0 /\ conn = <<>> /\ flushed = 0
    /\ hdr = NoHeader /\ sentHdr = NoHeader /\ rrHdr = NoHeader
    /\ invocations = 0 /\ produced = <<>> /\ producedTick = <<>>
    /\ cancelAt = 0 /\ afterCancel = 0 /\ lateFrames = 0

\* A request has arrived at one of the two routes of a registered name.
Init ==
    /\ route \in {"rest", "stream"}
    /\ cap \in {"date", "mock", "status", "fail"}
    /\ sent \in (IF cap \in {"date", "mock"} THEN Queries ELSE {<<>>, <<<<"2">>>>})
    /\ query = sent
    /\ mockData \in (CASE cap = "mock" -> Chunks
                        [] cap = "status" -> StatusBodies
                        [] OTHER -> {<<>>})
    /\ capStatus \in (CASE cap = "status" -> SetStatuses
                         [] cap = "fail" -> ErrorStatuses
                         [] OTHER -> {0})
    /\ errTitle \in (IF cap = "fail" THEN Titles ELSE {<<>>})
    /\ errDetail \in (IF cap = "fail" THEN Details ELSE {<<>>})
    /\ canFlush \in (IF route = "stream" THEN BOOLEAN ELSE {TRUE})
    /\ Idle
    /\ RegistryIdle
    /\ ServeIdle
    /\ LockIdle
    /\ rawIn = <<>> /\ resolved = 0

\* ------------------------------------------------- writes to the connection
NoEnv == DataResponse(JStr(<<>>))

\* fmt.Fprintf(w, "data: %s\n\n", wrappedData)
SSEEvent(env) == [kind |-> "event", env |-> env, raw |-> <<>>, text |-> ""]

\* json.NewEncoder(w).Encode(wrappedResponse)
JSONBody(env) == [kind |-> "json", env |-> env, raw |-> <<>>, text |-> ""]

\* w.Write(rr.BodyBytes())
RawBody(b) == [kind |-> "raw", env |-> NoEnv, raw |-> b, text |-> ""]

\* http.Error(w, msg, code)
ErrorText(msg) == [kind |-> "text", env |-> NoEnv, raw |-> <<>>, text |-> msg]

\* The status line goes out with the first write unless it was set before.
Committed(st) == IF st = 0 THEN StatusOK ELSE st

\* ------------------------------------------------------------ the endpoints
\* Faulty variant: the limit test off by one.
LimitReachedOffByOne(c, m) == c > m

\* date.HandleSSE: "if count >= maxCount { return }"
LimitReached(c, m) == c >= m

\* The endpoint's w.Write(chunk): on the streaming route the chunk is handed
\* to responseChan (Write blocks until it is received); on the single-shot
\* route it is appended to the recorder's body and Write returns at once.
Emit(chunk, after) ==
    /\ produced' = Append(produced, chunk)
    /\ producedTick' = Append(producedTick, tickC)
    /\ afterCancel' = IF cancelled THEN afterCancel + 1 ELSE afterCancel
    /\ IF route = "stream"
       THEN /\ pending' = chunk
            /\ gpc' = "write"
            /\ UNCHANGED <<rrBody, count>>
       ELSE /\ rrBody' = rrBody \o chunk
            /\ gpc' = after
            /\ count' = IF cap = "date" THEN count + 1 ELSE count
            /\ UNCHANGED pending

\* Faulty variant: the endpoint ignores max_count and stops after one event.
DateBeginLimitOne ==
    /\ gpc = "spawned" /\ cap = "date"
    /\ maxCountStr' = QueryGet(query)
    /\ maxCount' = 1
    /\ count' = 0
    /\ gpc' = "select"
    /\ invocations' = invocations + 1
    /\ UNCHANGED <<reqVars, hpc, envVars, pending, cur, closed, rrBody, rrCode,
                   connVars, produced, producedTick, afterCancel, lateFrames,
                   resolverVars, registryVars, serveVars, lockVars,
                   hdrVars>>

\* date.HandleSSE up to the loop: read max_count, derive the context, start
\* the ticker.
DateBegin ==
    /\ gpc = "spawned" /\ cap = "date"
    /\ maxCountStr' = QueryGet(query)
    /\ maxCount' = IF QueryGet(query) # <<>>
                   THEN ScanInto(QueryGet(query), 0)
                   ELSE DefaultMaxCount
    /\ count' = 0
    /\ gpc' = "select"
    /\ invocations' = invocations + 1
    /\ UNCHANGED <<reqVars, hpc, envVars, pending, cur, closed, rrBody, rrCode,
                   connVars, produced, producedTick, afterCancel, lateFrames,
                   resolverVars, registryVars, serveVars, lockVars,
                   hdrVars>>

\* select: case <-ctx.Done()
DateDone ==
    /\ gpc = "select" /\ cap = "date"
    /\ cancelled
    /\ gpc' = "returned"
    /\ UNCHANGED <<reqVars, hpc, maxCountStr, maxCount, count, pending, envVars,
                   cur, closed, rrBody, rrCode, connVars, histVars,
                   resolverVars, registryVars, serveVars, lockVars,
                   hdrVars>>

\* Faulty variant: the endpoint returns as soon as it has written the chunk
\* that reaches the limit.
DateTickReturnAtLimit ==
    /\ gpc = "select" /\ cap = "date"
    /\ tickC # 0
    /\ tickC' = 0
    /\ IF LimitReached(count, maxCount)
       THEN /\ gpc' = "returned"
            /\ UNCHANGED <<count, pending, rrBody, produced, producedTick, afterCancel>>
       ELSE /\ Len(produced) < MaxChunks
            /\ Emit(DateChunk(now),
                    IF LimitReached(count + 1, maxCount) THEN "returned" ELSE "select")
    /\ UNCHANGED <<reqVars, hpc, maxCountStr, maxCount, cancelled, now, cancelAt,
                   cur, closed, rrCode, connVars, invocations, lateFrames,
                   resolverVars, registryVars, serveVars, lockVars,
                   hdrVars>>

\* select: case <-ticker.C
DateTick ==
    /\ gpc = "select" /\ cap = "date"
    /\ tickC # 0
    /\ tickC' = 0
    /\ IF LimitReached(count, maxCount)
       THEN /\ gpc' = "returned"
            /\ UNCHANGED <<count, pending, rrBody, produced, producedTick, afterCancel>>
       ELSE /\ Len(produced) < MaxChunks
            /\ Emit(DateChunk(now), "select")
    /\ UNCHANGED <<reqVars, hpc, maxCountStr, maxCount, cancelled, now, cancelAt,
                   cur, closed, rrCode, connVars, invocations, lateFrames,
                   resolverVars, registryVars, serveVars, lockVars,
                   hdrVars>>

\* The endpoint's w.Header().Set(k, v): the recorder's header on the
\* single-shot route; on the streaming route customResponseWriter has no
\* Header method of its own, so the embedded live writer's header is set.
SinkHeaderSet(k, v) ==
    IF route = "stream"
    THEN hdr' = HeaderSet(hdr, k, v) /\ UNCHANGED rrHdr
    ELSE rrHdr' = HeaderSet(rrHdr, k, v) /\ UNCHANGED hdr

\* Faulty variant: the status is dropped.
SinkWriteHeaderIgnored(st, h) == UNCHANGED <<rrCode, connStatus, sentHdr>>

\* The endpoint's w.WriteHeader(st), h being the live header at that moment:
\* the recorder stores the code; on the streaming route the call reaches the
\* embedded live writer, which sends the status line and the headers unless
\* they are out already.
SinkWriteHeader(st, h) ==
    IF route = "stream"
    THEN /\ connStatus' = IF connStatus = 0 THEN st ELSE connStatus
         /\ sentHdr' = IF connStatus = 0 THEN h ELSE sentHdr
         /\ UNCHANGED rrCode
    ELSE /\ rrCode' = st
         /\ UNCHANGED <<connStatus, sentHdr>>

\* MockEndpoint.HandleSSE: read max_count, set the content type, write the
\* data once, return.
MockHandle ==
    /\ gpc = "spawned" /\ cap = "mock"
    /\ maxCountStr' = QueryGet(query)
    /\ maxCount' = IF QueryGet(query) # <<>> THEN ScanInto(QueryGet(query), 1) ELSE 1
    /\ invocations' = invocations + 1
    /\ SinkHeaderSet("Content-Type", "application/json")
    /\ Emit(mockData, "returned")
    /\ UNCHANGED <<reqVars, hpc, envVars, cur, closed, rrCode, connVars, sentHdr,
                   lateFrames, resolverVars, registryVars, serveVars, lockVars>>

\* w.Header().Set(k1, v1); w.Header().Set(k2, v2) by the endpoint.
SinkHeaderSetTwo(k1, v1, k2, v2) ==
    IF route = "stream"
    THEN hdr' = HeaderSet(HeaderSet(hdr, k1, v1), k2, v2) /\ UNCHANGED rrHdr
    ELSE rrHdr' = HeaderSet(HeaderSet(rrHdr, k1, v1), k2, v2) /\ UNCHANGED hdr

\* An Endpoint that sets headers and a status and writes its body:
\* w.Header().Set("Content-Type", "text/plain");
\* w.Header().Set("X-Endpoint", "status"); w.WriteHeader(status); w.Write(data).
StatusHandle ==
    /\ gpc = "spawned" /\ cap = "status"
    /\ maxCountStr' = QueryGet(query)
    /\ maxCount' = IF QueryGet(query) # <<>> THEN ScanInto(QueryGet(query), 1) ELSE 1
    /\ invocations' = invocations + 1
    /\ SinkHeaderSetTwo("Content-Type", "text/plain", "X-Endpoint", "status")
    /\ SinkWriteHeader(capStatus, hdr')
    /\ Emit(mockData, "returned")
    /\ UNCHANGED <<reqVars, hpc, envVars, cur, closed, conn, flushed,
                   lateFrames, resolverVars, registryVars, serveVars, lockVars>>

\* An Endpoint that reports an error: HandleSSE calls
\* WriteError(w, status, title, detail).  WriteError up to the encoding: set
\* the content type, write the status.
WriteErrorHeader ==
    /\ gpc = "spawned" /\ cap = "fail"
    /\ maxCountStr' = QueryGet(query)
    /\ maxCount' = IF QueryGet(query) # <<>> THEN ScanInto(QueryGet(query), 1) ELSE 1
    /\ invocations' = invocations + 1
    /\ SinkHeaderSet("Content-Type", "application/json")
    /\ SinkWriteHeader(capStatus, hdr')
    /\ gpc' = "encode"
    /\ UNCHANGED <<reqVars, hpc, count, pending, envVars, cur, closed, rrBody, conn,
                   flushed, produced, producedTick, afterCancel, lateFrames,
                   resolverVars, registryVars, serveVars, lockVars>>

\* WriteError: json.NewEncoder(w).Encode(response).  Neither sink's Write
\* returns an error, so the http.Error branch is never taken.
WriteErrorBody ==
    /\ gpc = "encode" /\ cap = "fail"
    /\ Emit(ErrorBytes(capStatus, errTitle, errDetail), "returned")
    /\ UNCHANGED <<reqVars, hpc, maxCountStr, maxCount, envVars, cur, closed, rrCode,
                   connVars, hdrVars, invocations, lateFrames,
                   resolverVars, registryVars, serveVars, lockVars>>

\* ------------------------------------------------------ the single-shot route
\* Faulty variant: the handler sends the status line before it calls the
\* endpoint.
RESTBeginEarlyHeader ==
    /\ hpc = "idle" /\ route = "rest"
    /\ query' = QuerySet(query, <<"1">>)
    /\ rrBody' = <<>> /\ rrCode' = StatusOK /\ rrHdr' = NoHeader
    /\ connStatus' = StatusOK /\ sentHdr' = hdr
    /\ hpc' = "incap"
    /\ gpc' = "spawned"
    /\ UNCHANGED <<route, sent, capInputs, canFlush, maxCountStr, maxCount, count,
                   pending, envVars, cur, closed, conn, flushed, hdr, histVars,
                   resolverVars, registryVars, serveVars, lockVars>>

\* The handler of "/"+name up to the call of HandleSSE: force max_count=1 and
\* hand the endpoint a fresh recorder.
RESTBegin ==
    /\ hpc = "idle" /\ route = "rest"
    /\ query' = QuerySet(query, <<"1">>)
    /\ rrBody' = <<>> /\ rrCode' = StatusOK /\ rrHdr' = NoHeader
    /\ hpc' = "incap"
    /\ gpc' = "spawned"
    /\ UNCHANGED <<route, sent, capInputs, canFlush, maxCountStr, maxCount, count,
                   pending, envVars, cur, closed, connVars, hdr, sentHdr, histVars,
                   resolverVars, registryVars, serveVars, lockVars>>

\* Faulty variant: the recorder's body is wrapped whatever the status.
RESTRespondAlwaysWrap ==
    /\ hpc = "incap" /\ gpc = "returned"
    /\ hdr' = HeaderSet(HeaderCopy(hdr, rrHdr), "Content-Type", "application/json")
    /\ sentHdr' = hdr'
    /\ connStatus' = rrCode
    /\ conn' = Append(conn, JSONBody(WrapResponse(rrBody)))
    /\ hpc' = "done"
    /\ UNCHANGED <<reqVars, capVars, envVars, cur, closed, rrBody, rrCode, rrHdr,
                   flushed, histVars, resolverVars, registryVars, serveVars, lockVars>>

\* Faulty variant: an empty recorder is answered with no body at all.
RESTRespondSkipEmpty ==
    /\ hpc = "incap" /\ gpc = "returned"
    /\ hdr' = HeaderSet(HeaderCopy(hdr, rrHdr), "Content-Type", "application/json")
    /\ sentHdr' = hdr'
    /\ IF rrCode # StatusOK
       THEN /\ connStatus' = rrCode
            /\ conn' = Append(conn, RawBody(rrBody))
       ELSE /\ connStatus' = Committed(connStatus)
            /\ conn' = IF rrBody = <<>> THEN conn
                       ELSE Append(conn, JSONBody(WrapResponse(rrBody)))
    /\ hpc' = "done"
    /\ UNCHANGED <<reqVars, capVars, envVars, cur, closed, rrBody, rrCode, rrHdr,
                   flushed, histVars, resolverVars, registryVars, serveVars, lockVars>>

\* After HandleSSE returned: copy the recorder's headers, set the content
\* type, relay a failure as it is, else wrap and encode.
RESTRespond ==
    /\ hpc = "incap" /\ gpc = "returned"
    /\ hdr' = HeaderSet(HeaderCopy(hdr, rrHdr), "Content-Type", "application/json")
    /\ sentHdr' = hdr'
    /\ IF rrCode # StatusOK
       THEN /\ connStatus' = rrCode
            /\ conn' = Append(conn, RawBody(rrBody))
       ELSE /\ connStatus' = Committed(connStatus)
            /\ conn' = Append(conn, JSONBody(WrapResponse(rrBody)))
    /\ hpc' = "done"
    /\ UNCHANGED <<reqVars, capVars, envVars, cur, closed, rrBody, rrCode, rrHdr,
                   flushed, histVars, resolverVars, registryVars, serveVars, lockVars>>

\* -------------------------------------------------------- the streaming route
\* Faulty variant: the goroutine is started without looking at the flusher.
SSEBeginNoFlusherCheck ==
    /\ hpc = "idle" /\ route = "stream"
    /\ hdr' = SSEHeaders(hdr)
    /\ hpc' = "recv"
    /\ gpc' = "spawned"
    /\ UNCHANGED <<reqVars, maxCountStr, maxCount, count, pending, envVars, cur,
                   closed, rrBody, rrCode, connVars, sentHdr, rrHdr, histVars,
                   resolverVars, registryVars, serveVars, lockVars>>

\* The handler of "/"+name+"/stream" up to the draining loop: set the
\* headers, test for the flusher (http.Error sets a plain-text content type
\* and writes the status), start the goroutine.
SSEBegin ==
    /\ hpc = "idle" /\ route = "stream"
    /\ IF ~canFlush
       THEN /\ hdr' = HeaderSet(SSEHeaders(hdr), "Content-Type", "text/plain; charset=utf-8")
            /\ sentHdr' = hdr'
            /\ connStatus' = StatusInternalServerError
            /\ conn' = Append(conn, ErrorText("Streaming not supported"))
            /\ hpc' = "done"
            /\ UNCHANGED gpc
       ELSE /\ hdr' = SSEHeaders(hdr)
            /\ hpc' = "recv"
            /\ gpc' = "spawned"
            /\ UNCHANGED <<connStatus, conn, sentHdr>>
    /\ UNCHANGED <<reqVars, maxCountStr, maxCount, count, pending, envVars, cur,
                   closed, rrBody, rrCode, rrHdr, flushed, histVars,
                   resolverVars, registryVars, serveVars, lockVars>>

\* Faulty variant: the loop stops receiving once the request's context is
\* cancelled.
SSEReceiveUntilCancel ==
    /\ hpc = "recv" /\ gpc = "write" /\ ~cancelled
    /\ cur' = pending
    /\ pending' = <<>>
    /\ hpc' = "frame"
    /\ gpc' = IF cap = "date" THEN "select" ELSE "returned"
    /\ count' = IF cap = "date" THEN count + 1 ELSE count
    /\ UNCHANGED <<reqVars, maxCountStr, maxCount, envVars, closed, rrBody, rrCode,
                   connVars, histVars, resolverVars, registryVars, serveVars, lockVars,
                   hdrVars>>

\* Faulty variant: responseChan has a buffer, so Write returns although the
\* loop is still busy with the chunk before.
SSEReceiveBuffered ==
    /\ hpc \in {"recv", "flush"} /\ gpc = "write"
    /\ cur' = pending
    /\ pending' = <<>>
    /\ hpc' = "frame"
    /\ gpc' = IF cap = "date" THEN "select" ELSE "returned"
    /\ count' = IF cap = "date" THEN count + 1 ELSE count
    /\ UNCHANGED <<reqVars, maxCountStr, maxCount, envVars, closed, rrBody, rrCode,
                   connVars, histVars, resolverVars, registryVars, serveVars, lockVars,
                   hdrVars>>

\* responseChan is unbuffered: customResponseWriter.Write's send and the
\* loop's receive happen together; Write then returns to the endpoint.
SSEReceive ==
    /\ hpc = "recv" /\ gpc = "write"
    /\ cur' = pending
    /\ pending' = <<>>
    /\ hpc' = "frame"
    /\ gpc' = IF cap = "date" THEN "select" ELSE "returned"
    /\ count' = IF cap = "date" THEN count + 1 ELSE count
    /\ UNCHANGED <<reqVars, maxCountStr, maxCount, envVars, closed, rrBody, rrCode,
                   connVars, histVars, resolverVars, registryVars, serveVars, lockVars,
                   hdrVars>>

\* Faulty variant: the loop gives up on a chunk that does not parse instead of
\* wrapping it as a string.
SSEFrameSkipInvalid ==
    /\ hpc = "frame"
    /\ IF Unmarshal(cur).err
       THEN /\ hpc' = "recv"
            /\ UNCHANGED <<connStatus, conn, sentHdr>>
       ELSE /\ connStatus' = Committed(connStatus)
            /\ sentHdr' = IF connStatus = 0 THEN hdr ELSE sentHdr
            /\ conn' = Append(conn, SSEEvent(WrapResponse(cur)))
            /\ hpc' = "flush"
    /\ lateFrames' = IF cancelled /\ hpc' = "flush" THEN lateFrames + 1 ELSE lateFrames
    /\ UNCHANGED <<reqVars, capVars, envVars, cur, closed, rrBody, rrCode, flushed,
                   hdr, rrHdr, invocations, produced, producedTick, afterCancel,
                   resolverVars, registryVars, serveVars, lockVars>>

\* Loop body up to Fprintf: parse, wrap, marshal, write the event.  The first
\* write sends the status line and the headers as they are then.
SSEFrame ==
    /\ hpc = "frame"
    /\ connStatus' = Committed(connStatus)
    /\ sentHdr' = IF connStatus = 0 THEN hdr ELSE sentHdr
    /\ conn' = Append(conn, SSEEvent(WrapResponse(cur)))
    /\ hpc' = "flush"
    /\ lateFrames' = IF cancelled THEN lateFrames + 1 ELSE lateFrames
    /\ UNCHANGED <<reqVars, capVars, envVars, cur, closed, rrBody, rrCode, flushed,
                   hdr, rrHdr, invocations, produced, producedTick, afterCancel,
                   resolverVars, registryVars, serveVars, lockVars>>

\* Faulty variant: the event is written and never flushed.
SSENoFlush ==
    /\ hpc = "flush"
    /\ hpc' = "recv"
    /\ UNCHANGED <<reqVars, capVars, envVars, cur, closed, rrBody, rrCode, connVars,
                   histVars, resolverVars, registryVars, serveVars, lockVars,
                   hdrVars>>

\* flusher.Flush()
SSEFlush ==
    /\ hpc = "flush"
    /\ flushed' = Len(conn)
    /\ hpc' = "recv"
    /\ UNCHANGED <<reqVars, capVars, envVars, cur, closed, rrBody, rrCode,
                   connStatus, conn, histVars, resolverVars, registryVars, serveVars, lockVars,
                   hdrVars>>

\* Faulty variant: the goroutine ends without closing responseChan.
GoroutineNoClose ==
    /\ route = "stream" /\ gpc = "returned"
    /\ gpc' = "exited"
    /\ UNCHANGED <<reqVars, hpc, maxCountStr, maxCount, count, pending, envVars,
                   cur, closed, rrBody, rrCode, connVars, histVars,
                   resolverVars, registryVars, serveVars, lockVars,
                   hdrVars>>

\* The goroutine after HandleSSE returned: close(responseChan).
GoroutineClose ==
    /\ route = "stream" /\ gpc = "returned"
    /\ closed' = TRUE
    /\ gpc' = "exited"
    /\ UNCHANGED <<reqVars, hpc, maxCountStr, maxCount, count, pending, envVars,
                   cur, rrBody, rrCode, connVars, histVars,
                   resolverVars, registryVars, serveVars, lockVars,
                   hdrVars>>

\* Faulty variant: the loop also ends when the request's context is done.
SSEEndOnCancel ==
    /\ hpc = "recv" /\ (closed \/ cancelled)
    /\ hpc' = "done"
    /\ UNCHANGED <<reqVars, capVars, envVars, cur, closed, rrBody, rrCode, connVars,
                   histVars, resolverVars, registryVars, serveVars, lockVars,
                   hdrVars>>

\* "for responseData := range responseChan" ends on the closed channel.
SSEEnd ==
    /\ hpc = "recv" /\ closed
    /\ hpc' = "done"
    /\ UNCHANGED <<reqVars, capVars, envVars, cur, closed, rrBody, rrCode, connVars,
                   histVars, resolverVars, registryVars, serveVars, lockVars,
                   hdrVars>>

\* ------------------------------------------------------------ environment
\* time.NewTicker(1 * time.Second): a tick is delivered when ticker.C is
\* empty and dropped otherwise.  The clock stops counting at MaxNow.
Tick ==
    /\ cap = "date" /\ gpc \in {"select", "write"}
    /\ now' = IF now < MaxNow THEN now + 1 ELSE now
    /\ tickC' = IF tickC = 0 THEN now' ELSE tickC
    /\ UNCHANGED <<reqVars, hpc, capVars, cancelled, cancelAt, cur, closed, rrBody,
                   rrCode, connVars, histVars, resolverVars, registryVars, serveVars, lockVars,
                   hdrVars>>

\* The client goes away: the request's context is cancelled.
Disconnect ==
    /\ route # "none" /\ hpc # "done" /\ ~cancelled
    /\ cancelled' = TRUE
    /\ cancelAt' = now
    /\ UNCHANGED <<reqVars, hpc, capVars, now, tickC, cur, closed, rrBody, rrCode,
                   connVars, histVars, resolverVars, registryVars, serveVars, lockVars,
                   hdrVars>>

Next ==
    \/ RESTBegin \/ RESTRespond
    \/ SSEBegin \/ SSEReceive \/ SSEFrame \/ SSEFlush \/ SSEEnd \/ GoroutineClose
    \/ DateBegin \/ DateDone \/ DateTick \/ MockHandle
    \/ StatusHandle \/ WriteErrorHeader \/ WriteErrorBody
    \/ Tick \/ Disconnect

Spec == Init /\ [][Next]_vars

\* ------------------------------------------- one stream of the date endpoint
\* A request to "/"+name+"/stream" of the date endpoint, the connection able
\* to flush.
StreamQueries == {<<>>, <<<<"0">>>>, <<<<"1">>>>, <<<<"2">>>>}

InitStream ==
    /\ route = "stream"
    /\ sent \in StreamQueries
    /\ query = sent
    /\ cap = "date" /\ mockData = <<>> /\ canFlush = TRUE
    /\ capStatus = 0 /\ errTitle = <<>> /\ errDetail = <<>>
    /\ Idle
    /\ RegistryIdle
    /\ ServeIdle
    /\ LockIdle
    /\ rawIn = <<>> /\ resolved = 0

\* The handler's goroutine and the endpoint's goroutine; the send and the
\* receive on responseChan (SSEReceive) are a step of both.
HandlerStep == SSEBegin \/ SSEReceive \/ SSEFrame \/ SSEFlush \/ SSEEnd

EndpointStep == DateBegin \/ DateTick \/ DateDone \/ GoroutineClose

NextStream == HandlerStep \/ EndpointStep \/ Tick \/ Disconnect

\* The scheduler runs every goroutine that can run, the ticker keeps ticking,
\* and select picks among its ready cases at random, so a case that is ready
\* again and again is eventually taken.
Fairness ==
    /\ WF_vars(HandlerStep)
    /\ WF_vars(EndpointStep)
    /\ WF_vars(Tick)
    /\ SF_vars(DateDone)

FairSpec == InitStream /\ [][NextStream]_vars /\ Fairness

\* ----------------------------------------------------- the resolver alone
RawInputs == {<<>>} \cup {<<v>> : v \in SeqsUpTo(RawAlphabet, MaxRawLen)}

InitResolver ==
    /\ route = "none" /\ sent = <<>> /\ query = <<>> /\ cap = "mock" /\ mockData = <<>>
    /\ capStatus = 0 /\ errTitle = <<>> /\ errDetail = <<>>
    /\ canFlush = TRUE
    /\ Idle
    /\ RegistryIdle
    /\ ServeIdle
    /\ LockIdle
    /\ rawIn \in RawInputs
    /\ resolved = 0

Resolve ==
    /\ route = "none" /\ resolved = 0
    /\ resolved' = getMaxCount(rawIn)
    /\ UNCHANGED <<reqVars, hpc, capVars, envVars, cur, closed, rrBody, rrCode,
                   connVars, histVars, hdrVars, rawIn, registryVars, serveVars, lockVars>>

NextResolver == Resolve

SpecResolver == InitResolver /\ [][NextResolver]_vars

\* ------------------------------------------------ the registry and the routes
MaxCalls == 3

\* Names endpoints are registered under, and the Endpoint values registered.
NameA == <<"a">>

NameB == <<"b">>

NameAStream == <<"a", "/", "s", "t", "r", "e", "a", "m">>

Names == {NameA, NameB, NameAStream}

EndpointValues == {"date", "mock"}

\* "/"+endpointName
Path(name) == <<"/">> \o name

\* "/"+endpointName+"/stream"
StreamPath(name) == Path(name) \o <<"/", "s", "t", "r", "e", "a", "m">>

\* Paths clients request.
RequestPaths ==
    {Path(n) : n \in Names} \cup {StreamPath(n) : n \in Names} \cup {<<"/", "z">>}

\* m[k] = v on a Go map.
MapSet(m, k, v) == [x \in (DOMAIN m) \cup {k} |-> IF x = k THEN v ELSE m[x]]

\* No request is being served in the behaviours of the registry alone.
NoRequest ==
    /\ route = "none" /\ sent = <<>> /\ query = <<>> /\ cap = "mock" /\ mockData = <<>>
    /\ capStatus = 0 /\ errTitle = <<>> /\ errDetail = <<>>
    /\ canFlush = TRUE
    /\ Idle
    /\ rawIn = <<>> /\ resolved = 0

InitRegistry == NoRequest /\ RegistryIdle /\ ServeIdle /\ LockIdle

requestVars ==
    <<reqVars, hpc, capVars, envVars, cur, closed, rrBody, rrCode, connVars, histVars,
      hdrVars, resolverVars>>

\* Faulty variant: a name that is bound keeps its endpoint.
RegisterFirstWins(name, endpoint) ==
    /\ mu = Unlocked
    /\ Len(calls) < MaxCalls
    /\ endpoints' = IF name \in DOMAIN endpoints THEN endpoints
                    ELSE MapSet(endpoints, name, endpoint)
    /\ calls' = Append(calls, <<name, endpoint>>)
    /\ UNCHANGED <<requestVars, serveVars, lockVars, phase, todo, routes, bound, served>>

\* Faulty variant: a call made while the hub serves also routes the name.
RegisterEndpointRouted(name, endpoint) ==
    /\ mu = Unlocked
    /\ Len(calls) < MaxCalls
    /\ endpoints' = MapSet(endpoints, name, endpoint)
    /\ calls' = Append(calls, <<name, endpoint>>)
    /\ routes' = IF phase = "serving"
                 THEN MapSet(MapSet(routes,
                          Path(name), [path |-> Path(name), endpointName |-> name,
                                       endpointHandler |-> endpoint, kind |-> "rest"]),
                          StreamPath(name), [path |-> StreamPath(name),
                                             endpointName |-> name,
                                             endpointHandler |-> endpoint,
                                             kind |-> "stream"])
                 ELSE routes
    /\ UNCHANGED <<requestVars, serveVars, lockVars, phase, todo, bound, served>>

\* Hub.RegisterEndpoint as one step, p.mu.Lock() to the deferred Unlock: it
\* waits while Start holds the read lock, and nothing stops a call made after
\* Start.
RegisterEndpoint(name, endpoint) ==
    /\ mu = Unlocked
    /\ Len(calls) < MaxCalls
    /\ endpoints' = MapSet(endpoints, name, endpoint)
    /\ calls' = Append(calls, <<name, endpoint>>)
    /\ UNCHANGED <<requestVars, serveVars, lockVars, phase, todo, routes, bound, served>>

Register == \E name \in Names, endpoint \in EndpointValues : RegisterEndpoint(name, endpoint)

\* Start up to the loop: p.mu.RLock().
StartBegin ==
    /\ phase = "registering"
    /\ mu.writer = 0
    /\ mu' = [mu EXCEPT !.readers = @ + 1]
    /\ phase' = "enumerating"
    /\ todo' = DOMAIN endpoints
    /\ bound' = endpoints
    /\ UNCHANGED <<requestVars, serveVars, regs, endpoints, calls, routes, served>>

\* The closures of one iteration: endpointName and endpointHandler are
\* variables of the iteration, copies of the range variables.
RESTClosure(name, endpoint) ==
    [path |-> Path(name), endpointName |-> name, endpointHandler |-> endpoint,
     kind |-> "rest"]

SSEClosure(name, endpoint) ==
    [path |-> StreamPath(name), endpointName |-> name, endpointHandler |-> endpoint,
     kind |-> "stream"]

\* Faulty variant: the closures refer to the range variables themselves, one
\* pair for the whole loop, so every closure sees the last iteration's values.
StartIterateSharedVar ==
    /\ phase = "enumerating" /\ todo # {}
    /\ \E name \in todo :
          /\ todo' = todo \ {name}
          /\ IF Path(name) \in DOMAIN routes \/ StreamPath(name) \in DOMAIN routes
             THEN phase' = "panicked" /\ UNCHANGED routes
             ELSE /\ routes' =
                       [p \in (DOMAIN routes) \cup {Path(name), StreamPath(name)} |->
                          [path |-> p, endpointName |-> name,
                           endpointHandler |-> endpoints[name],
                           kind |-> IF p \in DOMAIN routes THEN routes[p].kind
                                    ELSE IF p = Path(name) THEN "rest" ELSE "stream"]]
                  /\ UNCHANGED phase
    /\ UNCHANGED <<requestVars, serveVars, lockVars, endpoints, calls, bound, served>>

\* One iteration of "for name, endpoint := range p.endpoints", in the map's
\* arbitrary order: two mux.HandleFunc calls.  HandleFunc panics when the
\* pattern is registered already.
StartIterate ==
    /\ phase = "enumerating" /\ todo # {}
    /\ \E name \in todo :
          /\ todo' = todo \ {name}
          /\ IF Path(name) \in DOMAIN routes \/ StreamPath(name) \in DOMAIN routes
             THEN phase' = "panicked" /\ UNCHANGED routes
             ELSE /\ routes' =
                       MapSet(MapSet(routes,
                           Path(name), RESTClosure(name, endpoints[name])),
                           StreamPath(name), SSEClosure(name, endpoints[name]))
                  /\ UNCHANGED phase
    /\ UNCHANGED <<requestVars, serveVars, lockVars, endpoints, calls, bound, served>>

\* p.mu.RUnlock(); server.ListenAndServe()
StartServe ==
    /\ phase = "enumerating" /\ todo = {}
    /\ mu' = [mu EXCEPT !.readers = @ - 1]
    /\ phase' = "serving"
    /\ UNCHANGED <<requestVars, serveVars, regs, endpoints, calls, todo, routes, bound,
                   served>>

\* The mux finds the handler of a request: the patterns of this model end in
\* no slash, so a pattern matches the equal path only; no match is a 404.
Dispatch(mux, path) ==
    IF path \in DOMAIN mux THEN mux[path]
    ELSE [path |-> path, endpointName |-> <<>>, endpointHandler |-> "", kind |-> "notfound"]

Request ==
    /\ phase = "serving"
    /\ \E path \in RequestPaths : served' = Dispatch(routes, path)
    /\ UNCHANGED <<requestVars, serveVars, lockVars, endpoints, calls, phase, todo,
                   routes, bound>>

NextRegistry == Register \/ StartBegin \/ StartIterate \/ StartServe \/ Request

SpecRegistry == InitRegistry /\ [][NextRegistry]_vars

\* ------------------------------------------ registrations made concurrently
\* Goroutines that each call RegisterEndpoint once, and Start.
Registrars == {1, 2}

NewCall(name, endpoint) ==
    [pc |-> "call", name |-> name, endpoint |-> endpoint, seen |-> EmptyMap]

InitLock ==
    /\ NoRequest /\ RegistryIdle /\ ServeIdle
    /\ mu = Unlocked
    /\ regs \in [Registrars -> {NewCall(n, e) : n \in Names, e \in EndpointValues}]

\* Faulty variant: the write lock is taken without waiting for its holders.
LockNoWait(g) ==
    /\ regs[g].pc = "call"
    /\ mu' = [mu EXCEPT !.writer = g]
    /\ regs' = [regs EXCEPT ![g].pc = "locked"]
    /\ UNCHANGED <<requestVars, serveVars, registryVars>>

\* p.mu.Lock(): granted when no goroutine holds the lock, to write or to read.
Lock(g) ==
    /\ regs[g].pc = "call"
    /\ mu = Unlocked
    /\ mu' = [mu EXCEPT !.writer = g]
    /\ regs' = [regs EXCEPT ![g].pc = "locked"]
    /\ UNCHANGED <<requestVars, serveVars, registryVars>>

\* p.endpoints[name] = endpoint, first half: the assignment to a map is not one
\* indivisible step; it finds the place for the key in the map as it is.
MapAssignRead(g) ==
    /\ regs[g].pc = "locked"
    /\ regs' = [regs EXCEPT ![g].pc = "assign", ![g].seen = endpoints]
    /\ UNCHANGED <<requestVars, serveVars, registryVars, mu>>

\* p.endpoints[name] = endpoint, second half: the map becomes the one found
\* with the key bound.
MapAssignWrite(g) ==
    /\ regs[g].pc = "assign"
    /\ endpoints' = MapSet(regs[g].seen, regs[g].name, regs[g].endpoint)
    /\ calls' = Append(calls, <<regs[g].name, regs[g].endpoint>>)
    /\ regs' = [regs EXCEPT ![g].pc = "assigned"]
    /\ UNCHANGED <<requestVars, serveVars, mu, phase, todo, routes, bound, served>>

\* defer p.mu.Unlock()
Unlock(g) ==
    /\ regs[g].pc = "assigned"
    /\ mu' = [mu EXCEPT !.writer = 0]
    /\ regs' = [regs EXCEPT ![g].pc = "returned"]
    /\ UNCHANGED <<requestVars, serveVars, registryVars>>

NextLock ==
    \/ \E g \in Registrars : Lock(g) \/ MapAssignRead(g) \/ MapAssignWrite(g) \/ Unlock(g)
    \/ StartBegin \/ StartIterate \/ StartServe

SpecLock == InitLock /\ [][NextLock]_vars

\* ------------------------------------------- two connections served together
Conns == {1, 2}

NamePanic == <<"p">>

\* The hub serving: "a" is bound to the date endpoint, "b" to a MockEndpoint,
\* "p" to an Endpoint whose HandleSSE panics, at once or after its Write.
ServeEndpoints ==
    MapSet(MapSet(MapSet(EmptyMap, NameA, "date"), NameB, "mock"), NamePanic, "panic")

ServeRoutes ==
    [p \in {Path(n) : n \in DOMAIN ServeEndpoints}
            \cup {StreamPath(n) : n \in DOMAIN ServeEndpoints} |->
        IF \E n \in DOMAIN ServeEndpoints : p = Path(n)
        THEN LET n == CHOOSE n \in DOMAIN ServeEndpoints : p = Path(n)
             IN  RESTClosure(n, ServeEndpoints[n])
        ELSE LET n == CHOOSE n \in DOMAIN ServeEndpoints : p = StreamPath(n)
             IN  SSEClosure(n, ServeEndpoints[n])]

\* How many chunks the endpoint writes: one on the single-shot route
\* (max_count=1); on the streaming route the client asks the date endpoint
\* for two, and the MockEndpoint writes once whatever it is asked.
WritesOf(closure) ==
    IF closure.kind = "stream" /\ closure.endpointHandler = "date" THEN 2 ELSE 1

\* The k-th chunk an endpoint writes: the date endpoint the time, the
\* MockEndpoint its data.
EndpointBody(endpoint, k) == IF endpoint = "date" THEN DateChunk(k) ELSE <<"o", "k">>

\* A connection on which a request for the path has arrived.
NewConn(path) ==
    [closure |-> Dispatch(ServeRoutes, path),
     hpc |-> "idle", gpc |-> "none",
     left |-> WritesOf(Dispatch(ServeRoutes, path)),
     ch |-> 0, rr |-> 0,
     cur |-> [by |-> 0, body |-> <<>>],
     out |-> <<>>]

InitServe ==
    /\ NoRequest
    /\ endpoints = ServeEndpoints /\ bound = ServeEndpoints
    /\ calls = <<<<NameA, "date">>, <<NameB, "mock">>, <<NamePanic, "panic">>>>
    /\ phase = "serving" /\ todo = {} /\ routes = ServeRoutes /\ served = NoClosure
    /\ cx \in [Conns -> {NewConn(p) : p \in DOMAIN ServeRoutes}]
    /\ chans = <<>> /\ recs = <<>>
    /\ wrote = [c \in Conns |-> <<>>]
    /\ LockIdle

\* make(chan []byte)
NewChan == [pending |-> <<>>, closed |-> FALSE]

\* Faulty variant: one responseChan for every streaming connection.
ConnBeginSharedChan(c) ==
    /\ cx[c].hpc = "idle"
    /\ IF cx[c].closure.kind = "rest"
       THEN /\ recs' = Append(recs, <<>>)
            /\ cx' = [cx EXCEPT ![c].rr = Len(recs) + 1, ![c].hpc = "incap",
                                 ![c].gpc = "running"]
            /\ UNCHANGED chans
       ELSE /\ chans' = IF chans = <<>> THEN <<NewChan>> ELSE chans
            /\ cx' = [cx EXCEPT ![c].ch = 1, ![c].hpc = "recv", ![c].gpc = "running"]
            /\ UNCHANGED recs
    /\ UNCHANGED <<requestVars, registryVars, lockVars, wrote>>

\* A handler up to the endpoint's first step: the single-shot handler makes
\* its recorder and calls HandleSSE; the streaming handler makes its
\* responseChan and starts the goroutine that calls HandleSSE.
ConnBegin(c) ==
    /\ cx[c].hpc = "idle"
    /\ IF cx[c].closure.kind = "rest"
       THEN /\ recs' = Append(recs, <<>>)
            /\ cx' = [cx EXCEPT ![c].rr = Len(recs) + 1, ![c].hpc = "incap",
                                 ![c].gpc = "running"]
            /\ UNCHANGED chans
       ELSE /\ chans' = Append(chans, NewChan)
            /\ cx' = [cx EXCEPT ![c].ch = Len(chans) + 1, ![c].hpc = "recv",
                                 ![c].gpc = "running"]
            /\ UNCHANGED recs
    /\ UNCHANGED <<requestVars, registryVars, lockVars, wrote>>

\* The endpoint's w.Write(chunk) on the sink it was given: the recorder takes
\* the bytes; customResponseWriter.Write sends them on its responseChan and
\* blocks until they are received.
ConnWrite(c) ==
    /\ cx[c].gpc = "running" /\ cx[c].left > 0
    /\ LET chunk == [by |-> c,
                      body |-> EndpointBody(cx[c].closure.endpointHandler,
                                            Len(wrote[c]) + 1)]
       IN  /\ wrote' = [wrote EXCEPT ![c] = Append(@, chunk.body)]
           /\ IF cx[c].closure.kind = "rest"
              THEN /\ recs' = [recs EXCEPT ![cx[c].rr] = Append(@, chunk)]
                   /\ cx' = [cx EXCEPT ![c].left = @ - 1]
                   /\ UNCHANGED chans
              ELSE /\ chans[cx[c].ch].pending = <<>>
                   /\ ~chans[cx[c].ch].closed
                   /\ chans' = [chans EXCEPT ![cx[c].ch].pending = <<chunk>>]
                   /\ cx' = [cx EXCEPT ![c].left = @ - 1, ![c].gpc = "write"]
                   /\ UNCHANGED recs
    /\ UNCHANGED <<requestVars, registryVars, lockVars>>

\* "for responseData := range responseChan" receives; the Write that sent
\* the chunk returns.
ConnReceive(c) ==
    /\ cx[c].hpc = "recv"
    /\ chans[cx[c].ch].pending # <<>>
    /\ LET chunk == chans[cx[c].ch].pending[1]
       IN  cx' = [cx EXCEPT ![c].cur = chunk, ![c].hpc = "frame",
                            ![chunk.by].gpc = "running"]
    /\ chans' = [chans EXCEPT ![cx[c].ch].pending = <<>>]
    /\ UNCHANGED <<requestVars, registryVars, lockVars, recs, wrote>>

\* The loop body: wrap the chunk, write the event, flush.
ConnFrame(c) ==
    /\ cx[c].hpc = "frame"
    /\ cx' = [cx EXCEPT ![c].out = Append(@, [kind |-> "event",
                                               env |-> WrapResponse(cx[c].cur.body),
                                               from |-> {cx[c].cur.by}]),
                         ![c].hpc = "recv"]
    /\ UNCHANGED <<requestVars, registryVars, lockVars, chans, recs, wrote>>

\* HandleSSE returns; on the streaming route the goroutine closes its
\* responseChan.
ConnReturn(c) ==
    /\ cx[c].gpc = "running" /\ cx[c].left = 0
    /\ cx[c].closure.endpointHandler # "panic"
    /\ IF cx[c].closure.kind = "rest"
       THEN /\ cx' = [cx EXCEPT ![c].gpc = "returned"]
            /\ UNCHANGED chans
       ELSE /\ cx' = [cx EXCEPT ![c].gpc = "exited"]
            /\ chans' = [chans EXCEPT ![cx[c].ch].closed = TRUE]
    /\ UNCHANGED <<requestVars, registryVars, lockVars, recs, wrote>>

\* The range loop ends on the closed, drained channel.
ConnEnd(c) ==
    /\ cx[c].hpc = "recv"
    /\ chans[cx[c].ch].closed /\ chans[cx[c].ch].pending = <<>>
    /\ cx' = [cx EXCEPT ![c].hpc = "done"]
    /\ UNCHANGED <<requestVars, registryVars, lockVars, chans, recs, wrote>>

RECURSIVE BodyOf(_)
\* rr.BodyBytes(): the bytes written to the recorder, in order.
BodyOf(chunks) ==
    IF chunks = <<>> THEN <<>> ELSE Head(chunks).body \o BodyOf(Tail(chunks))

\* The single-shot handler after HandleSSE returned: wrap the recorder's body
\* and write the envelope.
ConnRespond(c) ==
    /\ cx[c].hpc = "incap" /\ cx[c].gpc = "returned"
    /\ cx' = [cx EXCEPT ![c].out = <<[kind |-> "json",
                                       env |-> WrapResponse(BodyOf(recs[cx[c].rr])),
                                       from |-> {ch.by : ch \in
                                                   {recs[cx[c].rr][i] :
                                                      i \in 1..Len(recs[cx[c].rr])}}]>>,
                         ![c].hpc = "done"]
    /\ UNCHANGED <<requestVars, registryVars, lockVars, chans, recs, wrote>>

\* HandleSSE panics.  On the single-shot route the call is made in the
\* goroutine net/http serves the connection with, whose deferred recover
\* logs the panic and drops the connection.  On the streaming route the call
\* is made in the goroutine the handler started, which has no recover: the
\* panic ends the process.
ConnPanic(c) ==
    /\ cx[c].gpc = "running"
    /\ cx[c].closure.endpointHandler = "panic"
    /\ IF cx[c].closure.kind = "rest"
       THEN /\ cx' = [cx EXCEPT ![c].gpc = "panicked", ![c].hpc = "aborted"]
            /\ UNCHANGED phase
       ELSE /\ cx' = [cx EXCEPT ![c].gpc = "panicked"]
            /\ phase' = "crashed"
    /\ UNCHANGED <<requestVars, lockVars, endpoints, calls, todo, routes, bound, served,
                   chans, recs, wrote>>

\* The goroutines of the process run while the process does.
NextServe ==
    /\ phase = "serving"
    /\ \E c \in Conns :
          \/ ConnBegin(c) \/ ConnWrite(c) \/ ConnReceive(c) \/ ConnFrame(c)
          \/ ConnReturn(c) \/ ConnEnd(c) \/ ConnRespond(c) \/ ConnPanic(c)

SpecServe == InitServe /\ [][NextServe]_vars

\* =================================================================== claims
\* HandleSSE has read max_count from the request.
Invoked == gpc \notin {"none", "spawned"}

\* The data: events among the entries written to the connection.
Events == SelectSeq(conn, LAMBDA e : e.kind = "event")

MaxLimit == 12

\* C1: on the single-shot route, whatever max_count the client sent, the
\* endpoint is invoked exactly once, the max_count it reads is exactly 1, and
\* exactly one envelope is written to the client.
C1_SingleShotForcesOne ==
    route = "rest" =>
        /\ invocations <= 1
        /\ Invoked => (invocations = 1 /\ maxCountStr = <<"1">> /\ maxCount = 1)
        /\ Len(conn) <= 1
        /\ hpc # "done" => conn = <<>>
        /\ hpc = "done" =>
              (invocations = 1 /\ Len(conn) = 1 /\ conn[1].kind \in {"json", "raw"})

C1_Witness ==
    /\ route = "rest" /\ hpc = "done"
    /\ sent = <<<<"2", "x">>>>
    /\ cap = "date" /\ Len(conn) = 1 /\ Len(produced) = 1

\* C2: on the streaming route with max_count=k, k > 0, the endpoint observes
\* the limit k and the connection never carries more than k data: events.
C2_StreamLimit ==
    \A k \in 1..MaxLimit :
        (route = "stream" /\ sent = <<Numeral(k)>>) =>
            /\ Invoked => maxCount = k
            /\ Len(Events) <= k

C2_Witness ==
    /\ route = "stream" /\ cap = "date" /\ sent = <<<<"2">>>>
    /\ hpc = "done" /\ ~cancelled
    /\ maxCount = 2 /\ Len(Events) = 2

\* Client values for which the limit is to be the default: no max_count, a
\* non-numeric one, zero, a negative one.
DefaultingQueries == {<<>>, <<<<"x">>>>, <<<<"0">>>>, <<<<"-", "1">>>>}

\* C3: on the streaming route the date endpoint runs under a limit of 3600
\* whenever max_count is absent, non-numeric, zero or negative.
C3_StreamDefaultLimit ==
    (route = "stream" /\ cap = "date" /\ sent \in DefaultingQueries /\ Invoked)
        => maxCount = DefaultMaxCount

RECURSIVE TrimRight(_)
TrimRight(s) ==
    IF s # <<>> /\ IsSpace(s[Len(s)]) THEN TrimRight(SubSeq(s, 1, Len(s) - 1)) ELSE s

\* A numeric text: an integer in decimal, with an optional sign, blanks
\* around it allowed.
Unsigned(s) ==
    LET t == TrimRight(SkipSpace(s))
    IN  IF t # <<>> /\ IsSign(Head(t)) THEN Tail(t) ELSE t

IsNumeric(s) ==
    /\ Unsigned(s) # <<>>
    /\ \A i \in 1..Len(Unsigned(s)) : Unsigned(s)[i] \in DigitChars

NumericValue(s) ==
    LET t == SkipSpace(s)
        n == ScanDigits(Unsigned(s), 0)
    IN  IF t # <<>> /\ Head(t) = "-" THEN 0 - n ELSE n

\* C4: getMaxCount returns 3600 when max_count is missing or empty,
\* non-numeric, zero or negative, and the numeric value itself when it is
\* greater than 0.
C4_ResolverContract ==
    resolved # 0 =>
        LET s == QueryGet(rawIn)
        IN  resolved = IF s = <<>> \/ ~IsNumeric(s) \/ NumericValue(s) <= 0
                       THEN DefaultMaxCount
                       ELSE NumericValue(s)

\* The value the envelope's data field is to hold for each chunk of the
\* model, written out case by case.
ExpectedData(chunk) ==
    CASE chunk = <<>> -> JStr(<<>>)
      [] chunk = <<"o", "k">> -> JStr(<<"o", "k">>)
      [] chunk = <<"7">> -> JNum(7)
      [] chunk = <<" ", "7", " ">> -> JNum(7)
      [] chunk = <<"7", " ", "7">> -> JStr(<<"7", " ", "7">>)
      [] chunk = <<"\"", "o", "k", "\"">> -> JStr(<<"o", "k">>)
      [] chunk = <<"{", "}">> -> JObj(EmptyObj)
      [] chunk = <<"{", "\"", "m", "\"", ":", "\"", "H", "i", "\"", "}">>
            -> JObj([k \in {<<"m">>} |-> JStr(<<"H", "i">>)])
      [] chunk = <<"{", "\"", "m", "\"", ":">>
            -> JStr(<<"{", "\"", "m", "\"", ":">>)
      [] \E t \in 0..(MaxNow + 1) : chunk = DateChunk(t) ->
            LET t == CHOOSE t \in 0..(MaxNow + 1) : chunk = DateChunk(t)
            IN  JObj([k \in {<<"U", "T", "C">>} |-> JStr(Numeral(t))])
      [] OTHER ->
            LET e == CHOOSE e \in ErrorStatuses \X Titles \X Details :
                         chunk = ErrorBytes(e[1], e[2], e[3])
            IN  JObj([k \in {KeyErrors} |->
                        JArr(<<JObj([f \in {KeyStatus, KeyTitle, KeyDetail} |->
                                      CASE f = KeyStatus -> JStr(Numeral(e[1]))
                                        [] f = KeyTitle -> JStr(e[2])
                                        [] OTHER -> JStr(e[3])])>>)])

\* Chunks the draining loop has taken from responseChan.
Received ==
    IF gpc = "write" THEN SubSeq(produced, 1, Len(produced) - 1) ELSE produced

\* C5: on both routes the success envelope is {"data": v}, v being the parsed
\* value when the chunk (the captured body on the single-shot route) is valid
\* JSON and the chunk as a string otherwise; every chunk, the empty one
\* included, gets its envelope.
C5_EnvelopeData ==
    /\ \A i \in 1..Len(conn) :
          /\ conn[i].kind = "event" => conn[i].env = [data |-> ExpectedData(produced[i])]
          /\ conn[i].kind = "json" => conn[i].env = [data |-> ExpectedData(rrBody)]
    /\ (route = "stream" /\ hpc \in {"recv", "done"} /\ canFlush)
          => Len(Events) = Len(Received)
    /\ (route = "rest" /\ hpc = "done" /\ rrCode = StatusOK)
          => (Len(conn) = 1 /\ conn[1].kind = "json")

C5_Witness ==
    /\ route = "stream" /\ hpc = "done" /\ cap = "mock"
    /\ mockData = <<"o", "k">>
    /\ Len(conn) = 1 /\ conn[1].kind = "event"
    /\ conn[1].env.data = JStr(<<"o", "k">>)

\* C6: on the streaming route, once the request's context is cancelled the
\* draining loop writes no further data: event.
C6_NoEventAfterCancel ==
    route = "stream" => lateFrames = 0

\* C7: after cancellation the date endpoint writes no chunk on a tick later
\* than the first tick that follows the cancellation.
C7_StopsWithinOneTick ==
    (cap = "date" /\ route = "stream" /\ cancelled) =>
        \A i \in 1..Len(producedTick) : producedTick[i] <= cancelAt + 1

\* The streaming connection is Closed: HandleSSE returned, responseChan is
\* closed, the handler returned.
StreamClosed == hpc = "done" /\ closed /\ gpc = "exited"

\* C8: with a fair scheduler and ticker, a stream served by the date endpoint
\* is closed after the client disconnects and after the limit is reached.
C8_EventuallyClosed ==
    (/\ route = "stream" /\ cap = "date" /\ canFlush
     /\ \/ cancelled
        \/ (Invoked /\ LimitReached(count, maxCount)))
        ~> StreamClosed

C8_Witness ==
    /\ route = "stream" /\ cap = "date" /\ StreamClosed
    /\ cancelled /\ Len(Events) >= 1 /\ ~LimitReached(count, maxCount)

\* Chunks received by the loop and not yet written as an event.
Unframed == IF hpc = "frame" THEN 1 ELSE 0

\* C9: on the streaming route the events written are the chunks the endpoint
\* wrote, in the same order, one event per chunk, and each event is flushed
\* before the next chunk is taken from responseChan.
C9_OrderedOneToOne ==
    (route = "stream" /\ canFlush) =>
        /\ Len(conn) = Len(Received) - Unframed
        /\ \A i \in 1..Len(conn) : conn[i] = SSEEvent(WrapResponse(produced[i]))
        /\ hpc \in {"recv", "frame", "done"} => flushed = Len(conn)
        /\ hpc = "flush" => flushed = Len(conn) - 1
        /\ StreamClosed => Len(conn) = Len(produced)

C9_Witness ==
    /\ route = "stream" /\ StreamClosed
    /\ Len(conn) = 3 /\ flushed = 3
    /\ produced[1] # produced[2] /\ produced[2] # produced[3]

\* Chunks passed to Write and not yet written and flushed.
InFlight == Len(produced) - flushed

\* Chunks whose Write has returned and that are not yet written and flushed.
Accepted == Len(Received) - flushed

\* C10 as stated: at most one chunk passed to Write is not yet written and
\* flushed.
C10_AtMostOneInFlight ==
    (route = "stream" /\ canFlush) => InFlight <= 1

\* C10 amended: at most one chunk whose Write has returned is not yet flushed;
\* counting the chunk a blocked Write is still sending, at most two.
C10_AtMostOneAccepted ==
    (route = "stream" /\ canFlush) => (Accepted <= 1 /\ InFlight <= 2)

C10_Witness ==
    route = "stream" /\ gpc = "write" /\ hpc = "frame" /\ InFlight = 2

\* C11: the streaming handler returns only after HandleSSE has returned and
\* responseChan has been closed; by then every chunk the endpoint passed to
\* Write has been written as an event, and the endpoint takes no step after
\* the handler has returned.
C11_ReturnsAfterClose ==
    (route = "stream" /\ canFlush /\ hpc = "done") =>
        /\ closed /\ gpc = "exited"
        /\ pending = <<>>
        /\ Len(Events) = Len(produced)
        /\ \A i \in 1..Len(produced) : Events[i] = SSEEvent(WrapResponse(produced[i]))

C11_Witness ==
    /\ route = "stream" /\ canFlush /\ hpc = "done" /\ cap = "date"
    /\ cancelled /\ afterCancel >= 1
    /\ Len(produced) = 2 /\ Len(Events) = 2

\* C12: when the live ResponseWriter of a streaming request is no
\* http.Flusher the response is a 500, HandleSSE is never called, no goroutine
\* is started, nothing is sent on responseChan and no data: event is written.
C12_NoFlusherFails ==
    (route = "stream" /\ ~canFlush) =>
        /\ hpc \in {"idle", "done"}
        /\ gpc = "none" /\ invocations = 0
        /\ produced = <<>> /\ pending = <<>> /\ ~closed
        /\ Events = <<>>
        /\ hpc = "done" =>
              /\ connStatus = StatusInternalServerError
              /\ conn = <<ErrorText("Streaming not supported")>>

C12_Witness ==
    /\ route = "stream" /\ ~canFlush /\ hpc = "done"
    /\ connStatus = StatusInternalServerError /\ Len(conn) = 1

\* A status that indicates failure: a client or a server error.
IndicatesFailure(st) == st >= 400

\* C13: on the single-shot route, when the status the recorder captured
\* indicates failure, the response carries that status and, as its only body,
\* the captured bytes as they are, with no data envelope around them.
C13_FailureRelayed ==
    (route = "rest" /\ hpc = "done" /\ IndicatesFailure(rrCode)) =>
        /\ connStatus = rrCode
        /\ conn = <<RawBody(rrBody)>>
        /\ rrCode = capStatus
        /\ produced = <<rrBody>>

C13_Witness ==
    /\ route = "rest" /\ hpc = "done" /\ cap = "fail"
    /\ connStatus = StatusNotFound
    /\ conn = <<RawBody(ErrorBytes(StatusNotFound, <<"T">>, <<"d">>))>>

\* C14: on the single-shot route, whenever the captured status does not
\* indicate failure (200, 201, ...), the response is one success envelope
\* around the captured bytes.
C14_SuccessWrapped ==
    (route = "rest" /\ hpc = "done" /\ ~IndicatesFailure(rrCode)) =>
        conn = <<JSONBody([data |-> ExpectedData(rrBody)])>>

\* C15: an error the endpoint reports with WriteError reaches the client as
\* it is on both routes: the failing status, and as the body the error
\* envelope itself, not wrapped into a data envelope.
C15_ErrorVerbatim ==
    (cap = "fail" /\ canFlush /\ hpc = "done") =>
        /\ connStatus = capStatus
        /\ conn = <<RawBody(ErrorBytes(capStatus, errTitle, errDetail))>>

\* The decimal text of the statuses of this model, written out.
DecimalText(st) ==
    CASE st = 200 -> <<"2", "0", "0">>
      [] st = 201 -> <<"2", "0", "1">>
      [] st = 404 -> <<"4", "0", "4">>
      [] st = 500 -> <<"5", "0", "0">>

\* The status of the response WriteError was given: the recorder's code on
\* the single-shot route, the live status line on the streaming route.
SinkStatus == IF route = "stream" THEN connStatus ELSE rrCode

\* C16: WriteError(w, status, title, detail) sets the status of the response
\* to status before it writes any body, and the body it writes decodes to an
\* envelope with exactly one error: status as a decimal string, the title and
\* the detail as given.
C16_WriteError ==
    cap = "fail" =>
        /\ gpc = "encode" =>
              (SinkStatus = capStatus /\ produced = <<>> /\ rrBody = <<>> /\ conn = <<>>)
        /\ gpc \in {"write", "returned", "exited"} =>
              /\ SinkStatus = capStatus
              /\ Len(produced) = 1
              /\ Unmarshal(produced[1]) =
                    [err |-> FALSE,
                     v |-> JObj([k \in {KeyErrors} |->
                             JArr(<<JObj([f \in {KeyStatus, KeyTitle, KeyDetail} |->
                                      CASE f = KeyStatus -> JStr(DecimalText(capStatus))
                                        [] f = KeyTitle -> JStr(errTitle)
                                        [] OTHER -> JStr(errDetail)])>>)])]
        /\ (route = "rest" /\ hpc = "done") => connStatus = capStatus

C16_Witness ==
    /\ cap = "fail" /\ route = "stream" /\ hpc = "done"
    /\ capStatus = StatusInternalServerError /\ connStatus = StatusInternalServerError
    /\ errTitle = <<"N", "o">> /\ errDetail = <<>>
    /\ Len(produced) = 1

\* C20: on the streaming route, when the first event is written the response
\* has gone out with Content-Type text/event-stream, Cache-Control no-cache,
\* Connection keep-alive and Access-Control-Allow-Origin *, whatever the
\* endpoint did with the writer it was given.
C20_StreamHeaders ==
    (route = "stream" /\ Len(Events) >= 1) =>
        /\ sentHdr["Content-Type"] = "text/event-stream"
        /\ sentHdr["Cache-Control"] = "no-cache"
        /\ sentHdr["Connection"] = "keep-alive"
        /\ sentHdr["Access-Control-Allow-Origin"] = "*"

\* The endpoint of the last RegisterEndpoint call made for a name, "" when
\* there was none.
RECURSIVE LastCall(_, _)
LastCall(cs, name) ==
    IF cs = <<>> THEN ""
    ELSE IF cs[Len(cs)][1] = name THEN cs[Len(cs)][2]
    ELSE LastCall(SubSeq(cs, 1, Len(cs) - 1), name)

\* C17: after any sequence of RegisterEndpoint calls each name is bound to
\* the endpoint of the last call made for it, a name no call was made for is
\* not bound; so a call for one name leaves every other binding as it was.
C17_LastRegistrationWins ==
    \A name \in Names :
        IF LastCall(calls, name) = ""
        THEN name \notin DOMAIN endpoints
        ELSE name \in DOMAIN endpoints /\ endpoints[name] = LastCall(calls, name)

C17_Witness ==
    /\ Len(calls) = 3
    /\ calls[1] = <<NameA, "date">> /\ calls[2] = <<NameB, "date">>
    /\ calls[3] = <<NameA, "mock">>
    /\ endpoints[NameA] = "mock" /\ endpoints[NameB] = "date"

\* C18: for every name N bound when Start enumerated the registry, both
\* "/"+N and "/"+N+"/stream" are routed, a request to either runs the handler
\* of that route with the endpoint bound to N, and never another endpoint.
C18_RoutesInvokeOwnEndpoint ==
    /\ phase = "serving" =>
          \A name \in DOMAIN bound :
              /\ Path(name) \in DOMAIN routes
              /\ StreamPath(name) \in DOMAIN routes
    /\ served.kind # "none" =>
          \A name \in DOMAIN bound :
              /\ served.path = Path(name) =>
                    (served.kind = "rest" /\ served.endpointHandler = bound[name]
                       /\ served.endpointName = name)
              /\ served.path = StreamPath(name) =>
                    (served.kind = "stream" /\ served.endpointHandler = bound[name]
                       /\ served.endpointName = name)

C18_Witness ==
    /\ phase = "serving"
    /\ DOMAIN bound = {NameA, NameB} /\ bound[NameA] = "date" /\ bound[NameB] = "mock"
    /\ served.path = StreamPath(NameA) /\ served.kind = "stream"
    /\ served.endpointHandler = "date"

RECURSIVE Concat(_)
Concat(bodies) == IF bodies = <<>> THEN <<>> ELSE Head(bodies) \o Concat(Tail(bodies))

\* C19: with two connections served together, on the same name or on
\* different names, everything written to a connection comes from the
\* HandleSSE call made for that connection and from no other: the events of a
\* stream are the envelopes of the chunks its own call wrote, in order, and
\* the single-shot response is the envelope of what its own call wrote.
C19_NoCrossTalk ==
    \A c \in DOMAIN cx :
        /\ \A i \in 1..Len(cx[c].out) : cx[c].out[i].from = {c}
        /\ cx[c].closure.kind = "stream" =>
              /\ Len(cx[c].out) <= Len(wrote[c])
              /\ \A i \in 1..Len(cx[c].out) :
                    /\ cx[c].out[i].kind = "event"
                    /\ cx[c].out[i].env = [data |-> ExpectedData(wrote[c][i])]
              /\ cx[c].hpc = "done" => Len(cx[c].out) = Len(wrote[c])
        /\ (cx[c].closure.kind = "rest" /\ cx[c].hpc = "done") =>
              /\ Len(cx[c].out) = 1 /\ cx[c].out[1].kind = "json"
              /\ cx[c].out[1].env = [data |-> ExpectedData(Concat(wrote[c]))]

C19_Witness ==
    /\ DOMAIN cx = Conns
    /\ cx[1].closure = cx[2].closure /\ cx[1].closure.path = StreamPath(NameA)
    /\ cx[1].hpc = "frame" /\ cx[2].hpc = "frame"
    /\ Len(cx[1].out) = 1 /\ Len(cx[2].out) = 0
    /\ cx[1].ch # cx[2].ch

\* The stream has ended, undisturbed, after exactly k data: events.
EndedWith(k) == StreamClosed /\ ~cancelled /\ Len(Events) = k /\ flushed = k

\* C21: a stream of the date endpoint asked for max_count=k, k > 0, whose
\* client does not disconnect, carries exactly k data: events and then ends:
\* it never ends with another number of events, and it does end.
C21_ExactlyKFrames ==
    /\ [](\A k \in 1..MaxLimit :
            (sent = <<Numeral(k)>> /\ hpc = "done" /\ ~cancelled) => EndedWith(k))
    /\ \A k \in 1..2 :
          (sent = <<Numeral(k)>>) ~> (cancelled \/ EndedWith(k))

C21_Witness ==
    /\ sent = <<<<"2">>>> /\ EndedWith(2)
    /\ produced = <<DateChunk(1), DateChunk(2)>>

\* C22: a failure of one connection, an endpoint that panics while serving it
\* on either route included, never ends the process.
C22_FailureConfined ==
    (\E c \in DOMAIN cx : cx[c].gpc = "panicked") => phase = "serving"

\* C23: once Start has enumerated the registry and serves, nothing changes
\* Hub.endpoints any more.
C23_RegistryReadOnly ==
    phase = "serving" => endpoints = bound

\* C24: on the streaming route a Write returns only when every chunk written
\* before it has been written to the connection as an event and flushed: the
\* Write of chunk n+1 does not return before the event of chunk n is flushed.
C24_ProducerThrottled ==
    [][(route = "stream" /\ Len(Received') > Len(Received)) =>
          (/\ Len(Events) = Len(Received)
           /\ flushed = Len(Received)
           /\ Len(Received') = Len(Received) + 1)]_vars

C24_Witness ==
    /\ route = "stream" /\ cap = "date"
    /\ Len(Received) = 2 /\ hpc = "frame" /\ gpc = "select"
    /\ flushed = 1 /\ Len(Events) = 1

\* C25: during a stream the endpoint's goroutine and the draining loop share
\* responseChan only: the endpoint's goroutine performs no operation on the
\* live connection, so the live header holds what the handler has set and a
\* status line goes out only with an event the loop writes.
C25_ChannelOnlyShared ==
    (route = "stream" /\ canFlush) =>
        /\ hdr \in {NoHeader, SSEHeaders(NoHeader)}
        /\ connStatus # 0 => Len(Events) >= 1

\* C27: on the single-shot route HandleSSE runs inside the handler, which
\* does nothing else meanwhile, and all it writes is in the recorder: until
\* HandleSSE has returned no status line, header or body is on the live
\* connection, and once the handler is done exactly one body is.
C27_RecorderOnly ==
    route = "rest" =>
        /\ hpc # "done" =>
              (conn = <<>> /\ connStatus = 0 /\ sentHdr = NoHeader /\ hdr = NoHeader)
        /\ hpc = "incap" => rrBody = Concat(Received)
        /\ hpc = "done" => (gpc = "returned" /\ Len(conn) = 1 /\ connStatus # 0)
        /\ invocations <= 1

C27_Witness ==
    /\ route = "rest" /\ hpc = "incap" /\ gpc = "returned"
    /\ rrBody # <<>> /\ rrCode = StatusNotFound
    /\ conn = <<>> /\ connStatus = 0

\* C28: on the single-shot route an endpoint that returns having written
\* nothing and set no status is answered with status 200 and the body
\* {"data": ""}.
C28_EmptyCapture ==
    (route = "rest" /\ hpc = "done" /\ produced = <<>> /\ rrCode = StatusOK) =>
        /\ connStatus = StatusOK
        /\ conn = <<JSONBody(DataResponse(JStr(<<>>)))>>

C28_Witness ==
    /\ route = "rest" /\ cap = "date" /\ cancelled
    /\ hpc = "done" /\ produced = <<>> /\ invocations = 1
    /\ conn = <<JSONBody(DataResponse(JStr(<<>>)))>>

\* C29: every single-shot response goes out with Content-Type
\* application/json, wrapped or relayed: the Content-Type the endpoint chose
\* is not sent, every other header it set is.
C29_ContentTypeJSON ==
    (route = "rest" /\ hpc = "done") =>
        /\ sentHdr["Content-Type"] = "application/json"
        /\ \A k \in HeaderKeys \ {"Content-Type"} : sentHdr[k] = rrHdr[k]

C29_Witness ==
    /\ route = "rest" /\ hpc = "done" /\ cap = "status"
    /\ capStatus = StatusNotFound /\ conn = <<RawBody(mockData)>>
    /\ rrHdr["Content-Type"] = "text/plain"
    /\ sentHdr["Content-Type"] = "application/json"
    /\ sentHdr["X-Endpoint"] = "status"

\* A goroutine is between p.mu.Lock() and the Unlock of RegisterEndpoint.
Registering(g) == regs[g].pc \in {"locked", "assign", "assigned"}

\* C30: at most one goroutine is inside RegisterEndpoint's critical section
\* and none is while Start enumerates the map, which therefore stays as Start
\* found it; and when concurrent registrations of distinct names have
\* returned, each name is bound to the endpoint registered for it.
C30_RegistrationsExclusive ==
    /\ \A g, h \in DOMAIN regs : (Registering(g) /\ Registering(h)) => g = h
    /\ phase = "enumerating" =>
          /\ \A g \in DOMAIN regs : ~Registering(g)
          /\ endpoints = bound
    /\ \A g \in DOMAIN regs :
          (/\ regs[g].pc = "returned"
           /\ \A h \in DOMAIN regs \ {g} : regs[h].name # regs[g].name)
          => (/\ regs[g].name \in DOMAIN endpoints
              /\ endpoints[regs[g].name] = regs[g].endpoint)

C30_Witness ==
    /\ \A g \in Registrars : regs[g].pc = "returned"
    /\ regs[1].name = NameA /\ regs[2].name = NameB
    /\ calls = <<<<NameB, regs[2].endpoint>>, <<NameA, regs[1].endpoint>>>>
    /\ phase = "serving"
    /\ DOMAIN bound = {NameA, NameB}

\* C31: on the streaming route no Write of the endpoint blocks for ever:
\* while a Write is blocked the draining loop has not ended, and under fair
\* scheduling every chunk passed to Write is received by the loop, whether or
\* not the client has disconnected.
C31_WriteReturns ==
    /\ [](gpc = "write" => (hpc \in {"recv", "frame", "flush"} /\ ~closed))
    /\ \A n \in 1..MaxChunks : (Len(produced) >= n) ~> (Len(Received) >= n)

C31_Witness ==
    /\ route = "stream" /\ cap = "date" /\ cancelled
    /\ afterCancel >= 1 /\ Len(produced) = 2 /\ Len(Received) = 2
    /\ hpc = "recv"

\* C32: whatever names are registered, Start's loop registers every pattern
\* with the mux and does not fail: the paths "/"+N and "/"+N+"/stream" of all
\* registered names are pairwise distinct, two routes for each name.
C32_RoutesDistinct ==
    /\ phase # "panicked"
    /\ phase = "serving" => Cardinality(DOMAIN routes) = 2 * Cardinality(DOMAIN bound)

\* The names Start enumerated that a path belongs to.
Owners(path) == {n \in DOMAIN bound : path \in {Path(n), StreamPath(n)}}

\* C33: once Start serves, the routes stay what the enumeration made them: a
\* later RegisterEndpoint call adds no route and changes no route's endpoint,
\* so a request is answered by the endpoint its name was bound to when Start
\* enumerated the registry, and by 404 when the name was not bound then.
C33_RoutesFixed ==
    [][phase = "serving" =>
          /\ routes' = routes /\ bound' = bound
          /\ served' # served =>
                IF Owners(served'.path) = {}
                THEN served'.kind = "notfound"
                ELSE \A n \in Owners(served'.path) :
                        /\ served'.endpointName = n
                        /\ served'.endpointHandler = bound[n]]_vars

C33_Witness ==
    /\ phase = "serving"
    /\ bound = MapSet(EmptyMap, NameA, "date")
    /\ endpoints = MapSet(MapSet(EmptyMap, NameA, "mock"), NameB, "date")
    /\ served.path = Path(NameB) /\ served.kind = "notfound"
    /\ routes[Path(NameA)].endpointHandler = "date"

\* C34: the date endpoint with a limit k >= 1 writes a chunk on each tick it
\* takes while it has written fewer than k, never writes more than k, and
\* returns only when cancelled or on a tick it takes after the k chunks, a
\* tick later than the one of the last chunk.
C34_DatePacing ==
    [][(cap = "date" /\ Invoked /\ maxCount >= 1) =>
          /\ Len(produced') <= maxCount
          /\ (tickC # 0 /\ tickC' = 0 /\ Len(produced) < maxCount) =>
                (/\ Len(produced') = Len(produced) + 1
                 /\ producedTick' = Append(producedTick, tickC))
          /\ (gpc = "select" /\ gpc' = "returned") =>
                \/ cancelled
                \/ /\ tickC # 0 /\ tickC' = 0
                   /\ Len(produced) = maxCount /\ produced' = produced
                   /\ \/ tickC > producedTick[maxCount]
                      \/ tickC = MaxNow]_vars

C34_Witness ==
    /\ cap = "date" /\ route = "stream" /\ maxCount = 2
    /\ gpc = "returned" /\ ~cancelled /\ tickC = 0
    /\ Len(produced) = 2 /\ Len(producedTick) = 2
    /\ producedTick[1] < producedTick[2] /\ producedTick[2] < now

====
